---- MODULE Spec2Model ----
(***************************************************************************)
(* State-machine model of the CarouselImage component                      *)
(* (src/src/lib/CarouselImage.tsx): the props, the component state         *)
(* {width, itemWidth}, the Animated.Value fed by the scroll handler, and   *)
(* the element tree produced by render().                                  *)
(*                                                                         *)
(* Widths, gaps and offsets are integers.  For integer inputs the          *)
(* quotient (width - n*gap) / (n + 0.25) = 4*(width - n*gap) / (4*n + 1)   *)
(* is never exactly k + 0.5 (4*n + 1 is odd), so Math.round is modelled    *)
(* exactly by integer arithmetic.                                          *)
(***************************************************************************)
EXTENDS Integers, Sequences, FiniteSets, TLC

\* line 17
GAP_DEFAULT == 6

\* Dimensions.get('window').width, read once at construction (line 89)
WindowWidth == 360

----------------------------------------------------------------------------
\* Bounds of the explored input space

MaxColumns == 3
MaxGap == 2
MaxWidth == 8
MaxOffset == 4
\* number of steps of the Bezier parameter t in [0, 1]
EaseGrid == 20

\* numColumns is typed `number`: nothing in the component rejects 0 or -1
ColumnValues == (-1) .. MaxColumns
\* gap is optional: <<>> is "not configured", <<g>> is a configured gap g
GapValues == {<<>>} \cup {<<g>> : g \in (0 .. MaxGap) \cup {GAP_DEFAULT}}
\* widths reported by the layout event
WidthValues == (0 .. MaxWidth) \cup {300, 318}
\* contentOffset.x reported by the scroll event (negative while bouncing)
OffsetValues == (-1) .. MaxOffset
NonNegOffsetValues == 0 .. MaxOffset

----------------------------------------------------------------------------
VARIABLES
    props,                \* this.props: [numColumns, gap, image]
    state,                \* this.state: [width, itemWidth]
    animatedValueScroll,  \* current value of the Animated.Value
    view,                 \* what the last render() returned
    evt,                  \* history: the last notification delivered
    lastInDomain          \* history: last notified offset inside [0, 2*itemWidth]

vars == <<props, state, animatedValueScroll, view, evt, lastInDomain>>

----------------------------------------------------------------------------
\* Math.round(num / den) for den # 0: the nearest integer, halves towards +Infinity
MathRound(num, den) ==
    LET n == IF den < 0 THEN -num ELSE num
        d == IF den < 0 THEN -den ELSE den
    IN  (2 * n + d) \div (2 * d)

\* this.props.gap || GAP_DEFAULT : undefined and 0 are both falsy
GapOrDefault(gap) ==
    IF gap = <<>> THEN GAP_DEFAULT
    ELSE IF gap[1] = 0 THEN GAP_DEFAULT
    ELSE gap[1]

\* the variant that forgets to subtract the gaps
ComputeItemWidth_NoGap(width, numColumns, gap) ==
    MathRound(4 * width, 4 * numColumns + 1)

\* Math.round((width - numColumns * (gap || GAP_DEFAULT)) / (numColumns + 0.25))
ComputeItemWidth(width, numColumns, gap) ==
    MathRound(4 * (width - numColumns * GapOrDefault(gap)), 4 * numColumns + 1)

\* the variant with a strict comparison
InDomain_Strict(x, itemWidth) == x < itemWidth * 2

\* the guard of the onScroll handler: contentOffset.x <= this.state.itemWidth * 2
InDomain(x, itemWidth) == x <= itemWidth * 2

\* the variant whose banner guard tests this.props.image alone
Render_NoBannerGuard(p, s) ==
    LET ready == s.itemWidth # 0
    IN  [ banner         |-> p.image,
          bannerWidth    |-> IF p.image THEN s.itemWidth * 2 ELSE 0,
          carousel       |-> ready,
          carouselGap    |-> IF ready THEN GapOrDefault(p.gap) ELSE 0,
          leadingSpacer  |-> ready /\ p.image,
          leadingWidth   |-> IF ready /\ p.image THEN s.itemWidth * 2 ELSE 0,
          tileWidth      |-> IF ready THEN s.itemWidth ELSE 0,
          trailingSpacer |-> ready,
          trailingWidth  |-> IF ready THEN s.itemWidth ELSE 0 ]

\* render(): a number is truthy iff it is not 0 (a negative itemWidth is truthy).
\* Widths of elements that are not rendered are reported as 0.
Render(p, s) ==
    LET ready == s.itemWidth # 0
    IN  [ banner         |-> p.image /\ ready,
          bannerWidth    |-> IF p.image /\ ready THEN s.itemWidth * 2 ELSE 0,
          carousel       |-> ready,
          carouselGap    |-> IF ready THEN GapOrDefault(p.gap) ELSE 0,
          leadingSpacer  |-> ready /\ p.image,
          leadingWidth   |-> IF ready /\ p.image THEN s.itemWidth * 2 ELSE 0,
          tileWidth      |-> IF ready THEN s.itemWidth ELSE 0,
          trailingSpacer |-> ready,
          trailingWidth  |-> IF ready THEN s.itemWidth ELSE 0 ]

----------------------------------------------------------------------------
\* The interpolations of the banner (lines 121-133), in fixed point.
\* Easing.bezier(0, 0, 0.58, 1): x(t) = 3(1-t)t^2 * 0.58 + t^3,
\*                               y(t) = 3(1-t)t^2        + t^3, t = k / EaseGrid.

\* x(t) scaled by 100 * EaseGrid^3
BezierX(k) == 3 * (EaseGrid - k) * k * k * 58 + 100 * k * k * k
\* y(t) scaled by EaseGrid^3
BezierY(k) == 3 * (EaseGrid - k) * k * k + k * k * k
EaseUnit == EaseGrid * EaseGrid * EaseGrid

\* the first grid point t with x(t) >= num / den (den > 0).  Neither
\* interpolation sets `extrapolate`, so the input is not clamped before easing:
\* an input below 0 resolves to t = 0 and an input above 1 is looked up on the
\* curve continued past t = 1 (an approximation of the library's solver there)
EaseT(num, den) ==
    LET ks   == 0 .. ((3 * EaseGrid) \div 2)
        hits == {k \in ks : BezierX(k) * den >= num * 100 * EaseUnit}
    IN  IF hits = {} THEN (3 * EaseGrid) \div 2
        ELSE CHOOSE k \in hits : \A j \in hits : k <= j

\* eased progress of value v over inputRange [0, itemWidth * 2], scaled by EaseUnit
EasedProgress(v, itemWidth) ==
    IF itemWidth * 2 > 0 THEN BezierY(EaseT(v, itemWidth * 2))
    ELSE IF v <= 0 THEN 0 ELSE EaseUnit

\* opacity: outputRange [1, 0.05], in thousandths
Opacity(v, itemWidth) == 1000 - (950 * EasedProgress(v, itemWidth)) \div EaseUnit

\* translateX: outputRange [0, -(itemWidth * 0.25)], in thousandths of 1/4 px
TranslateX(v, itemWidth) == -((1000 * itemWidth * EasedProgress(v, itemWidth)) \div EaseUnit)

\* the sample shown by the banner
Sample(v, itemWidth) ==
    [opacity |-> Opacity(v, itemWidth), translateX |-> TranslateX(v, itemWidth)]

----------------------------------------------------------------------------
\* After construction: props as passed by the parent, state of lines 88-91,
\* animatedValueScroll of line 86, and the first render()
Init ==
    /\ props \in [numColumns : ColumnValues, gap : GapValues, image : BOOLEAN]
    /\ state = [width |-> WindowWidth, itemWidth |-> 0]
    /\ animatedValueScroll = 0
    /\ view = Render(props, state)
    /\ evt = [type |-> "init", x |-> 0]
    /\ lastInDomain = 0

\* onLayout (lines 93-101): setState, then the re-render it triggers
onLayout(width) ==
    /\ state' = [width     |-> width,
                 itemWidth |-> ComputeItemWidth(width, props.numColumns, props.gap)]
    /\ view' = Render(props, state')
    /\ evt' = [type |-> "layout", x |-> width]
    /\ UNCHANGED <<props, animatedValueScroll, lastInDomain>>

\* onScroll handler (lines 149-153): it exists only while the Carousel is rendered
onScroll(x) ==
    /\ view.carousel
    /\ animatedValueScroll' =
          IF InDomain(x, state.itemWidth) THEN x ELSE animatedValueScroll
    /\ lastInDomain' =
          IF 0 <= x /\ x <= 2 * state.itemWidth THEN x ELSE lastInDomain
    /\ evt' = [type |-> "scroll", x |-> x]
    /\ UNCHANGED <<props, state, view>>

\* the parent re-renders the component with new props: state is kept, render() runs
ReceiveProps(p) ==
    /\ p # props
    /\ props' = p
    /\ view' = Render(p, state)
    /\ evt' = [type |-> "props", x |-> 0]
    /\ UNCHANGED <<state, animatedValueScroll, lastInDomain>>

SetNumColumns == \E n \in ColumnValues : ReceiveProps([props EXCEPT !.numColumns = n])
SetGap        == \E g \in GapValues : ReceiveProps([props EXCEPT !.gap = g])
SetImage      == \E b \in BOOLEAN : ReceiveProps([props EXCEPT !.image = b])

Layout == \E w \in WidthValues : onLayout(w)
Scroll == \E x \in OffsetValues : onScroll(x)

Next ==
    \/ Layout
    \/ Scroll
    \/ SetNumColumns
    \/ SetGap
    \/ SetImage

Spec == Init /\ [][Next]_vars

\* A component whose props never change and whose tile width is fixed by the
\* first layout that produces a non-zero width, scrolled by offsets x >= 0
FirstLayout == state.itemWidth = 0 /\ \E w \in WidthValues : onLayout(w)
ScrollNonNeg == \E x \in NonNegOffsetValues : onScroll(x)

NextScroll ==
    \/ FirstLayout
    \/ ScrollNonNeg

SpecScroll == Init /\ [][NextScroll]_vars

\* A component that is only ever given a positive integer numColumns
InitValid == Init /\ props.numColumns >= 1
SetValidNumColumns ==
    \E n \in 1 .. MaxColumns : ReceiveProps([props EXCEPT !.numColumns = n])

NextValid ==
    \/ Layout
    \/ Scroll
    \/ SetValidNumColumns
    \/ SetGap
    \/ SetImage

SpecValid == InitValid /\ [][NextValid]_vars

----------------------------------------------------------------------------
\* numColumns is a positive integer (the configurations the contract calls valid)
ValidColumns == props.numColumns >= 1

\* at least one layout event has been handled (WindowWidth is never reported)
LaidOut == state.width \in WidthValues

\* the gap of the documented contract: 6 when none is configured, else the
\* configured value, 0 included
ConfiguredGap(gap) == IF gap = <<>> THEN GAP_DEFAULT ELSE gap[1]

\* round((w - n*gap) / (n + 0.25)) with the gap of the documented contract
FormulaTileWidth(w, n, gap) ==
    MathRound(4 * (w - n * ConfiguredGap(gap)), 4 * n + 1)

----------------------------------------------------------------------------
\* C1: right after a resize notification with width w, the stored tile width
\* is round((w - numColumns*gap) / (numColumns + 0.25)) for every numColumns >= 1
\* and every configured gap >= 0 (6 when no gap is configured).
C1_TileWidthFormula ==
    (evt.type = "layout" /\ ValidColumns)
        => state.itemWidth = FormulaTileWidth(evt.x, props.numColumns, props.gap)

\* C2: once a resize has been notified, whatever resizes and changes of
\* numColumns or gap follow, the stored tile width is the one the component
\* computes from the last reported width and the current numColumns and gap.
C2_NoStaleTileWidth ==
    (LaidOut /\ ValidColumns)
        => state.itemWidth = ComputeItemWidth(state.width, props.numColumns, props.gap)

\* C3: the scroll value that drives the banner always lies in [0, 2*tileWidth]
\* for the current tile width, including after negative offsets and after a
\* resize that shrinks the tile width.
C3_ScrollValueInDomain ==
    (ValidColumns /\ state.itemWidth >= 0)
        => (0 <= animatedValueScroll /\ animatedValueScroll <= 2 * state.itemWidth)

\* C4: with a fixed tile width > 0 and scroll offsets x >= 0, the scroll value
\* equals the most recent notified offset within [0, 2*tileWidth] (0 if none).
C4_LastInDomainForwarded ==
    state.itemWidth > 0 => animatedValueScroll = lastInDomain

\* C4 witness: an offset beyond the domain arrived after an in-domain offset
\* had been forwarded, and the forwarded value is still the one in force.
C4_Witness ==
    /\ state.itemWidth > 0
    /\ evt.type = "scroll"
    /\ evt.x > 2 * state.itemWidth
    /\ animatedValueScroll > 0
    /\ animatedValueScroll = lastInDomain

\* C5: after a scroll notification whose offset exceeds 2*tileWidth, the
\* banner shows the sample of offset 2*tileWidth (opacity 0.05,
\* translateX -0.25*tileWidth).
C5_ClampedBeyondDomain ==
    (evt.type = "scroll" /\ state.itemWidth > 0 /\ evt.x > 2 * state.itemWidth /\ view.banner)
        => /\ Sample(animatedValueScroll, state.itemWidth)
                = Sample(2 * state.itemWidth, state.itemWidth)
           /\ Opacity(animatedValueScroll, state.itemWidth) = 50
           /\ TranslateX(animatedValueScroll, state.itemWidth) = -(1000 * state.itemWidth)

\* C6: a configuration with numColumns <= 0 is rejected at construction, so no
\* resize notification is ever handled (and no tile width stored) with one.
C6_InvalidColumnsRejected ==
    ~(evt.type = "layout" /\ props.numColumns < 1)

\* C7: while the tile width is 0 nothing sized is rendered (no banner, no tile
\* row, no spacers) and no scroll notification reaches the scroll value.
C7_DeferredRendering ==
    /\ [](state.itemWidth = 0
            => ~view.banner /\ ~view.carousel
               /\ ~view.leadingSpacer /\ ~view.trailingSpacer)
    /\ [][state.itemWidth = 0
            => evt'.type # "scroll" /\ animatedValueScroll' = animatedValueScroll]_vars

\* C7 witness: the component was ready and scrolled, then a resize brought the
\* tile width back to 0 with a banner image configured.
C7_Witness ==
    /\ state.itemWidth = 0
    /\ evt.type = "layout"
    /\ props.image
    /\ animatedValueScroll # 0

\* C8: with a valid numColumns the stored tile width is never negative, and a
\* resize notification with width 0 stores tile width 0 and renders nothing.
C8_ZeroWidthNotReady ==
    ValidColumns
        => /\ state.itemWidth >= 0
           /\ (evt.type = "layout" /\ evt.x = 0)
                => (state.itemWidth = 0 /\ ~view.carousel /\ ~view.banner)

\* C9: the tile width stored for a configured gap g >= 0 never exceeds the
\* tile width the component computes for the same width and columns with gap 0.
C9_GapNeverIncreases ==
    (evt.type = "layout" /\ ValidColumns /\ props.gap # <<>>)
        => ComputeItemWidth(evt.x, props.numColumns, <<0>>) >= state.itemWidth

\* the end-to-end scenario: width 318 reported to a component with
\* numColumns = 3, gap = 6 and a banner image
EndToEndScenario ==
    /\ evt.type = "layout"
    /\ evt.x = 318
    /\ props.numColumns = 3
    /\ props.gap = <<6>>
    /\ props.image

\* C10 as stated: the scenario exposes tile width 87, leading spacer 174 and
\* trailing spacer 87.
C10_EndToEnd87 ==
    EndToEndScenario
        => /\ view.tileWidth = 87
           /\ view.leadingSpacer /\ view.leadingWidth = 174
           /\ view.trailingSpacer /\ view.trailingWidth = 87

\* C10 amended: the scenario exposes tile width 92 = round(300 / 3.25), leading
\* spacer 184 and trailing spacer 92.
C10_EndToEnd92 ==
    EndToEndScenario
        => /\ state.itemWidth = 92
           /\ view.tileWidth = 92
           /\ view.leadingSpacer /\ view.leadingWidth = 184
           /\ view.trailingSpacer /\ view.trailingWidth = 92

\* C10 witness: the scenario has happened and the tile row is rendered.
C10_Witness ==
    EndToEndScenario /\ view.carousel /\ view.banner

====
